---------------------------- MODULE Spec2Model ----------------------------
(***************************************************************************)
(* Model of the create-context-engineering-app scaffolder.                 *)
(*                                                                         *)
(* Three script variants exist in the repository:                          *)
(*   "main"  : the refactored script with main(), index.js lines 132-486   *)
(*   "first" : the first script of index.js, lines 1-130                   *)
(*   "local" : the script that copies from its own package directory,      *)
(*             unnamed/part_000 lines 136-216                              *)
(*                                                                         *)
(* A path component (file or directory name) is a sequence of segments;    *)
(* the segment ".md" is kept apart so that endsWith(".md") and             *)
(* replace(".md", "") are computed on the name as the code computes them.  *)
(* A directory tree is a record: its root directories, its root files with *)
(* their contents, the files of <assets>/templates, the files of Rules,    *)
(* and the directories that are roots of a git repository.                 *)
(***************************************************************************)
EXTENDS Integers, Sequences, FiniteSets, TLC

\* ------------------------------------------------------------------ bounds
\* at most this many root entries are missing from the template source
MaxMissing == 1
\* longest text (in chunks) of a per-language PRP template variant
MaxTextLen == 2

\* ------------------------------------------------------- program constants
MD == ".md"
PLACEHOLDER == "{{LLM_AGENT}}"
SUPPORTED_LLMS == {"GEMINI", "CLAUDE"}
REQUIRED_FILES == << <<"INITIAL_EXAMPLE", MD>>, <<"INITIAL", MD>>, <<"README", MD>> >>
coreDirectories == << <<".context">>, <<"examples">> >>
RulesDirName == <<"Rules">>
prpTemplateName == <<"prp_template", MD>>

langTemplateName(language) == <<"prp_template_">> \o language \o <<MD>>

llmFile(llm) == <<llm, MD>>

\* the two invocations of the tool that the model follows
Procs == {1, 2}

Variants == {"main", "first", "local"}

\* --------------------------------------------------------------- utilities
Range(s) == {s[i] : i \in DOMAIN s}

Put(f, k, v) == [x \in (DOMAIN f) \cup {k} |-> IF x = k THEN v ELSE f[x]]

Del(f, K) == [x \in (DOMAIN f) \ K |-> f[x]]

RECURSIVE SeqOf(_)
SeqOf(S) == IF S = {} THEN <<>>
            ELSE LET x == CHOOSE y \in S : TRUE IN <<x>> \o SeqOf(S \ {x})

\* String.prototype.endsWith(".md")
endsWithMd(file) == Len(file) > 0 /\ file[Len(file)] = MD

\* String.prototype.replace(".md", ""): removes the FIRST occurrence only
RECURSIVE replaceMd(_)
replaceMd(file) ==
    IF file = <<>> THEN <<>>
    ELSE IF Head(file) = MD THEN Tail(file)
    ELSE <<Head(file)>> \o replaceMd(Tail(file))

\* String.prototype.toUpperCase on the llm values the model passes
toUpperCase(arg) ==
    CASE arg = "claude" -> "CLAUDE"
      [] arg = "gemini" -> "GEMINI"
      [] arg = "gpt"    -> "GPT"
      [] OTHER          -> arg

\* a replace without the g flag: only the first occurrence is replaced
replaceAll_firstOnly(text, llm) ==
    [i \in 1..Len(text) |->
        IF text[i] = PLACEHOLDER /\ \A j \in 1..(i - 1) : text[j] # PLACEHOLDER
        THEN llm ELSE text[i]]

\* prpContent.replace(/{{LLM_AGENT}}/g, llm): a text is a sequence of chunks,
\* each chunk the placeholder token or text without it
replaceAll(text, llm) ==
    [i \in 1..Len(text) |-> IF text[i] = PLACEHOLDER THEN llm ELSE text[i]]

\* ------------------------------------------------------------------- trees
NoTree == [kind |-> "absent", dirs |-> {}, files |-> <<>>, tpl |-> <<>>,
           rules |-> <<>>, git |-> {}]

\* fs.mkdirSync of a fresh directory
NewDir == [NoTree EXCEPT !.kind = "dir"]

existsSync(t) == t.kind # "absent"

\* original content of a file of the template source
Doc(path) == [kind |-> "doc", of |-> path]

Text(chunks) == [kind |-> "text", of |-> chunks]

\* the string path.join(projectDir, file)
PathString(name, file) == [kind |-> "path", of |-> name \o <<"/">> \o file]

\* root entry present in a tree, as file or directory
HasEntry(t, e) == e \in t.dirs \/ e \in DOMAIN t.files


Merge(f, g) == [x \in (DOMAIN f) \cup (DOMAIN g) |->
                  IF x \in DOMAIN f THEN f[x] ELSE g[x]]

\* fs.copySync(path.join(T, e), path.join(D, e)) for a root entry e that
\* exists in T; the templates and Rules subtrees travel with their directory
copySync(T, D, e, assets) ==
    IF e \in T.dirs
    THEN [D EXCEPT !.dirs  = @ \cup {e},
                   !.tpl   = IF e = assets THEN Merge(T.tpl, @) ELSE @,
                   !.rules = IF e = RulesDirName THEN Merge(T.rules, @) ELSE @]
    ELSE [D EXCEPT !.files = Put(@, e, T.files[e])]

\* copies the entries of list in order while they exist in T; stops at the
\* first missing one (where copySync throws ENOENT)
RECURSIVE copyAll(_, _, _, _)
copyAll(T, D, list, assets) ==
    IF list = <<>> \/ ~HasEntry(T, Head(list)) THEN D
    ELSE copyAll(T, copySync(T, D, Head(list), assets), Tail(list), assets)

allExist(T, list) == \A i \in 1..Len(list) : HasEntry(T, list[i])

\* copies the entries of list that exist in T and skips the others
RECURSIVE copyExisting(_, _, _, _)
copyExisting(T, D, list, assets) ==
    IF list = <<>> THEN D
    ELSE copyExisting(T,
                      IF HasEntry(T, Head(list))
                      THEN copySync(T, D, Head(list), assets) ELSE D,
                      Tail(list), assets)

\* fs.readdirSync(rulesDir).filter(endsWith(".md")).map(replace(".md", ""))
languagesOf(T) ==
    LET listing == SeqOf(DOMAIN T.rules)
        kept    == SelectSeq(listing, endsWithMd)
    IN  [i \in 1..Len(kept) |-> replaceMd(kept[i])]

\* a rewrite without the existsSync guard: a missing variant reads as empty
rewritePRP_unguarded(D, language, llm) ==
    [D EXCEPT !.tpl = Put(@, prpTemplateName,
        IF langTemplateName(language) \in DOMAIN D.tpl
        THEN Text(replaceAll(D.tpl[langTemplateName(language)].of, llm))
        ELSE Text(<<>>))]

\* the rewrite of prp_template.md shared by the three scripts
rewritePRP(D, language, llm) ==
    IF langTemplateName(language) \in DOMAIN D.tpl
    THEN [D EXCEPT !.tpl = Put(@, prpTemplateName,
                   Text(replaceAll(D.tpl[langTemplateName(language)].of, llm)))]
    ELSE D

\* --------------------------------------------------- inputs and environment
Names == { <<"app">>, <<"README", MD>> }

LangArgs == { <<"react">>, <<"x", "y", MD>>, <<"go">> }

LlmArgs == {"GEMINI", "CLAUDE", "claude", "gpt"}

CmdLines == [name : Names, lang : LangArgs, llm : LlmArgs]

NoArgs == [name |-> <<>>, lang |-> <<>>, llm |-> ""]

RuleFileNames == { <<"react", MD>>, <<"x", MD, "y", MD>>, <<"notes", ".txt">> }

Chunks == {PLACEHOLDER, "text"}

Texts == UNION {[1..n -> Chunks] : n \in 0..MaxTextLen}

GenericPRP == Text(<<"generic ", PLACEHOLDER>>)

BrandingFiles == { llmFile(l) : l \in SUPPORTED_LLMS }

assetsDir(v) == IF v = "local" THEN <<".gemini">> ELSE <<".context">>

\* the root entries each script expects in its template source
RootDirs(v) ==
    IF v = "local"
    THEN { <<".gemini">>, <<"examples">>, RulesDirName, <<"src">>, <<"tests">> }
    ELSE { <<".context">>, <<"examples">>, RulesDirName }

RootFiles(v) ==
    Range(REQUIRED_FILES) \cup BrandingFiles \cup
    (IF v = "local" THEN { <<".gitattributes">>, <<".gitignore">> } ELSE {})

\* a template source: the repository at REPO_URL, or the package directory
MkRepo(v, missing, ruleFiles, generic, variantTexts) ==
    LET hasAssets == assetsDir(v) \notin missing
        hasRules  == RulesDirName \notin missing
        tplNames  == (IF generic THEN {prpTemplateName} ELSE {}) \cup
                     { langTemplateName(<<"react">>) : t \in variantTexts }
    IN  [kind  |-> "dir",
         dirs  |-> RootDirs(v) \ missing,
         files |-> [f \in RootFiles(v) \ missing |-> Doc(f)],
         tpl   |-> IF hasAssets
                   THEN [f \in tplNames |->
                           IF f = prpTemplateName THEN GenericPRP
                           ELSE Text(CHOOSE t \in variantTexts : TRUE)]
                   ELSE <<>>,
         rules |-> IF hasRules
                   THEN [f \in ruleFiles |-> Doc(RulesDirName \o f)]
                   ELSE <<>>,
         git   |-> {}]

RepoTrees(v) ==
    { MkRepo(v, missing, ruleFiles, generic, variantTexts) :
        missing \in { m \in SUBSET (RootDirs(v) \cup RootFiles(v)) :
                        Cardinality(m) <= MaxMissing },
        ruleFiles \in SUBSET RuleFileNames,
        generic \in BOOLEAN,
        variantTexts \in {{}} \cup { {t} : t \in Texts } }

\* a directory that is at the destination before the run, with a user's file
PreTree == [NewDir EXCEPT !.files = (<<"notes">> :> Doc(<<"notes">>))]

\* ------------------------------------------------------------------- state
VARIABLES
    variant,            \* which of the three scripts is installed
    repo,               \* the template source (read by clone or directly)
    dest,               \* the working directory: name -> tree at <cwd>/<name>
    tmp,                \* tempDir of each invocation
    pc,                 \* the statement each invocation is about to run
    cmdline,            \* process.argv of each invocation
    argv,               \* what yargs returned (llm coerced)
    availableLanguages, \* the discovered language list
    exitCode,           \* exit status, once pc = "exited"
    err,                \* which error was reported, "none" if none
    snap,               \* the working directory when the invocation started
    cloned,             \* the invocation's git clone created tempDir
    after,              \* invocations that had exited when this one started
    warn,               \* the warnings console.warn printed
    log                 \* the statements each invocation has run, in order

vars == <<variant, repo, dest, tmp, pc, cmdline, argv, availableLanguages,
          exitCode, err, snap, cloned, after, warn, log>>

env == <<variant, repo>>

projectDir(p) == dest[argv[p].name]

\* the template directory an invocation reads: tempDir, or the package itself
templateDir(p) == IF variant = "local" THEN repo ELSE tmp[p]

InitCommon ==
    /\ variant \in Variants
    /\ tmp = [p \in Procs |-> NoTree]
    /\ cmdline = [p \in Procs |-> NoArgs]
    /\ argv = [p \in Procs |-> NoArgs]
    /\ availableLanguages = [p \in Procs |-> <<>>]
    /\ exitCode = [p \in Procs |-> 0]
    /\ err = [p \in Procs |-> "none"]
    /\ snap = [p \in Procs |-> dest]
    /\ cloned = [p \in Procs |-> FALSE]
    /\ after = [p \in Procs |-> {}]
    /\ warn = [p \in Procs |-> {}]
    /\ log = [p \in Procs |-> <<>>]

\* one invocation, any template source, destination "app" possibly taken
Init ==
    /\ \E pre \in BOOLEAN :
         dest = [n \in Names |-> IF pre /\ n = <<"app">> THEN PreTree ELSE NoTree]
    /\ InitCommon
    /\ repo \in RepoTrees(variant)
    /\ pc = [p \in Procs |-> IF p = 1 THEN "invoke" ELSE "off"]

\* ----------------------------------------------------------- control flow
Goto(p, label) ==
    /\ pc' = [pc EXCEPT ![p] = label]
    /\ log' = [log EXCEPT ![p] = Append(@, pc[p])]
    /\ UNCHANGED <<exitCode, err>>

\* process.exit(code), or the end of the script
Exit(p, code, e) ==
    /\ pc' = [pc EXCEPT ![p] = "exited"]
    /\ log' = [log EXCEPT ![p] = Append(@, pc[p])]
    /\ exitCode' = [exitCode EXCEPT ![p] = code]
    /\ err' = [err EXCEPT ![p] = e]

firstLabel(v) ==
    CASE v = "main"  -> "cloneRepository"
      [] v = "first" -> "first_clone"
      [] v = "local" -> "local_availableLangs"

\* the shell starts the script with a command line
Invoke(p) ==
    /\ pc[p] = "invoke"
    /\ \E c \in CmdLines : cmdline' = [cmdline EXCEPT ![p] = c]
    /\ snap' = [snap EXCEPT ![p] = dest]
    /\ after' = [after EXCEPT ![p] = {q \in Procs : pc[q] = "exited"}]
    /\ Goto(p, firstLabel(variant))
    /\ UNCHANGED <<env, dest, tmp, argv, availableLanguages, cloned, warn>>


Throw(p, e) == Exit(p, 1, e)

SetDest(p, D) == dest' = [dest EXCEPT ![argv[p].name] = D]

\* ------------------------------------------ the refactored script: main()
\* execSync(`git clone --depth 1 ...`); a failed clone leaves no directory
\* a clone step that swallows the failure of git clone and carries on
cloneRepository_swallows(p) ==
    /\ pc[p] = "cloneRepository"
    /\ \/ /\ tmp' = [tmp EXCEPT ![p] = repo]
          /\ cloned' = [cloned EXCEPT ![p] = TRUE]
       \/ UNCHANGED <<tmp, cloned>>
    /\ Goto(p, "getAvailableLanguages")
    /\ UNCHANGED <<env, dest, cmdline, argv, availableLanguages, snap, after, warn>>

cloneRepository(p) ==
    /\ pc[p] = "cloneRepository"
    /\ \/ /\ tmp' = [tmp EXCEPT ![p] = repo]
          /\ cloned' = [cloned EXCEPT ![p] = TRUE]
          /\ Goto(p, "getAvailableLanguages")
       \/ /\ Throw(p, "clone")
          /\ UNCHANGED <<tmp, cloned>>
    /\ UNCHANGED <<env, dest, cmdline, argv, availableLanguages, snap, after, warn>>

getAvailableLanguages(p) ==
    /\ pc[p] = "getAvailableLanguages"
    /\ IF RulesDirName \notin tmp[p].dirs
       THEN Throw(p, "norules") /\ UNCHANGED availableLanguages
       ELSE IF Len(languagesOf(tmp[p])) = 0
       THEN Throw(p, "nolangs") /\ UNCHANGED availableLanguages
       ELSE /\ availableLanguages' =
                 [availableLanguages EXCEPT ![p] = languagesOf(tmp[p])]
            /\ Goto(p, "parseArguments")
    /\ UNCHANGED <<env, dest, tmp, cmdline, argv, snap, cloned, after, warn>>

\* a coerce that leaves the argument as typed
coerce_asTyped(arg) == arg

\* the coerce function of the llm option
coerce(arg) == toUpperCase(arg)

\* yargs: coerce, then check the choices of lang and llm
yargsAccepts(c, languages) ==
    /\ c.lang \in Range(languages)
    /\ coerce(c.llm) \in SUPPORTED_LLMS

yargsResult(c) == [name |-> c.name, lang |-> c.lang, llm |-> coerce(c.llm)]

\* on a validation failure yargs prints the usage and calls process.exit(1)
parseArguments(p) ==
    /\ pc[p] = "parseArguments"
    /\ IF yargsAccepts(cmdline[p], availableLanguages[p])
       THEN /\ argv' = [argv EXCEPT ![p] = yargsResult(cmdline[p])]
            /\ Goto(p, "validateProjectDirectory")
       ELSE /\ Exit(p, 1, "args")
            /\ UNCHANGED argv
    /\ UNCHANGED <<env, dest, tmp, cmdline, availableLanguages, snap, cloned, after, warn>>

\* a destination check that lets an existing directory pass
validateProjectDirectory_noCheck(p) ==
    /\ pc[p] = "validateProjectDirectory"
    /\ Goto(p, "createProjectDirectory")
    /\ UNCHANGED <<env, dest, tmp, cmdline, argv, availableLanguages, snap,
                   cloned, after, warn>>

validateProjectDirectory(p) ==
    /\ pc[p] = "validateProjectDirectory"
    /\ IF existsSync(projectDir(p))
       THEN Throw(p, "exists")
       ELSE Goto(p, "createProjectDirectory")
    /\ UNCHANGED <<env, dest, tmp, cmdline, argv, availableLanguages, snap,
                   cloned, after, warn>>

\* fs.mkdirSync(projectDir, { recursive: true }): no error if it is there
createProjectDirectory(p) ==
    /\ pc[p] = "createProjectDirectory"
    /\ SetDest(p, IF existsSync(projectDir(p)) THEN projectDir(p) ELSE NewDir)
    /\ Goto(p, "copyCoreDiretories")
    /\ UNCHANGED <<env, tmp, cmdline, argv, availableLanguages, snap, cloned, after, warn>>

copyCoreDiretories(p) ==
    /\ pc[p] = "copyCoreDiretories"
    /\ SetDest(p, copyExisting(tmp[p], projectDir(p), coreDirectories,
                               assetsDir(variant)))
    /\ Goto(p, "copyRequiredFiles")
    /\ UNCHANGED <<env, tmp, cmdline, argv, availableLanguages, snap, cloned, after, warn>>

\* a copy loop that misses the last required file
copyRequiredFiles_missesLast(p) ==
    /\ pc[p] = "copyRequiredFiles"
    /\ SetDest(p, copyExisting(tmp[p], projectDir(p), SubSeq(REQUIRED_FILES, 1, 2),
                               assetsDir(variant)))
    /\ Goto(p, "copyLLMFile")
    /\ UNCHANGED <<env, tmp, cmdline, argv, availableLanguages, snap, cloned, after, warn>>

copyRequiredFiles(p) ==
    /\ pc[p] = "copyRequiredFiles"
    /\ SetDest(p, copyExisting(tmp[p], projectDir(p), REQUIRED_FILES,
                               assetsDir(variant)))
    /\ Goto(p, "copyLLMFile")
    /\ UNCHANGED <<env, tmp, cmdline, argv, availableLanguages, snap, cloned, after, warn>>

copyLLMFile(p) ==
    /\ pc[p] = "copyLLMFile"
    /\ SetDest(p, copyExisting(tmp[p], projectDir(p), <<llmFile(argv[p].llm)>>,
                               assetsDir(variant)))
    /\ Goto(p, "configurePRPTemplate")
    /\ UNCHANGED <<env, tmp, cmdline, argv, availableLanguages, snap, cloned, after, warn>>

configurePRPTemplate(p) ==
    /\ pc[p] = "configurePRPTemplate"
    /\ SetDest(p, rewritePRP(projectDir(p), argv[p].lang, argv[p].llm))
    /\ Goto(p, "applyLanguageRules")
    /\ UNCHANGED <<env, tmp, cmdline, argv, availableLanguages, snap, cloned, after, warn>>

\* path.join(templateDir, "Rules", `${language}.md`)
langRulesName(language) == language \o <<MD>>

\* writes the rules document into <projectDir>/<llm>.md, or warns and returns
languageRulesApplied(T, D, language, llm) ==
    IF langRulesName(language) \in DOMAIN T.rules
    THEN [D EXCEPT !.files = Put(@, llmFile(llm), T.rules[langRulesName(language)])]
    ELSE D

Warn(p, w) == warn' = [warn EXCEPT ![p] = @ \cup {w}]

applyLanguageRules(p) ==
    /\ pc[p] = "applyLanguageRules"
    /\ SetDest(p, languageRulesApplied(tmp[p], projectDir(p), argv[p].lang,
                                       argv[p].llm))
    /\ IF langRulesName(argv[p].lang) \in DOMAIN tmp[p].rules
       THEN UNCHANGED warn
       ELSE Warn(p, "no language rules")
    /\ Goto(p, "initializeProjectStructure")
    /\ UNCHANGED <<env, tmp, cmdline, argv, availableLanguages, snap, cloned, after>>

\* fs.mkdirSync(srcDir, { recursive: true }) throws EEXIST when srcDir is a
\* file; a failure of git init is caught and only warned about
initializeProjectStructure(p) ==
    /\ pc[p] = "initializeProjectStructure"
    /\ IF argv[p].name \in DOMAIN projectDir(p).files
       THEN Throw(p, "mkdir") /\ UNCHANGED <<dest, warn>>
       ELSE /\ \/ /\ SetDest(p, [projectDir(p) EXCEPT
                             !.dirs = @ \cup {argv[p].name},
                             !.git  = @ \cup {argv[p].name}])
                  /\ UNCHANGED warn
               \/ /\ SetDest(p, [projectDir(p) EXCEPT
                             !.dirs = @ \cup {argv[p].name}])
                  /\ Warn(p, "git init failed")
            /\ Goto(p, "cleanupTemplateFiles")
    /\ UNCHANGED <<env, tmp, cmdline, argv, availableLanguages, snap, cloned, after>>

\* removes every entry of <projectDir>/.context/templates but prp_template.md
\* a cleanup that removes only the generic-named entries and keeps the
\* per-language variants
templatesCleaned_keepsVariants(D) ==
    [D EXCEPT !.tpl = Del(@, (DOMAIN @) \cap {prpTemplateName})]

templatesCleaned(D) ==
    [D EXCEPT !.tpl = Del(@, (DOMAIN @) \ {prpTemplateName})]

cleanupTemplateFiles(p) ==
    /\ pc[p] = "cleanupTemplateFiles"
    /\ SetDest(p, IF assetsDir(variant) \in projectDir(p).dirs
                  THEN templatesCleaned(projectDir(p)) ELSE projectDir(p))
    /\ Goto(p, "cleanupTempDirectory")
    /\ UNCHANGED <<env, tmp, cmdline, argv, availableLanguages, snap, cloned, after, warn>>

\* the finally block, reached when the try block ran to its end; main() then
\* returns and the process ends with status 0
cleanupTempDirectory(p) ==
    /\ pc[p] = "cleanupTempDirectory"
    /\ tmp' = [tmp EXCEPT ![p] = NoTree]
    /\ Exit(p, 0, "none")
    /\ UNCHANGED <<env, dest, cmdline, argv, availableLanguages, snap, cloned, after, warn>>

main(p) ==
    \/ cloneRepository(p)
    \/ getAvailableLanguages(p)
    \/ parseArguments(p)
    \/ validateProjectDirectory(p)
    \/ createProjectDirectory(p)
    \/ copyCoreDiretories(p)
    \/ copyRequiredFiles(p)
    \/ copyLLMFile(p)
    \/ configurePRPTemplate(p)
    \/ applyLanguageRules(p)
    \/ initializeProjectStructure(p)
    \/ cleanupTemplateFiles(p)
    \/ cleanupTempDirectory(p)


\* ------------------------------------- the first script (index.js 1-130)
\* nothing catches in this script: a thrown error ends the process, status 1
first_clone(p) ==
    /\ pc[p] = "first_clone"
    /\ \/ /\ tmp' = [tmp EXCEPT ![p] = repo]
          /\ cloned' = [cloned EXCEPT ![p] = TRUE]
          /\ Goto(p, "first_availableLangs")
       \/ /\ Throw(p, "clone")
          /\ UNCHANGED <<tmp, cloned>>
    /\ UNCHANGED <<env, dest, cmdline, argv, availableLanguages, snap, after, warn>>

\* fs.readdirSync throws ENOENT without a Rules directory; an empty list is kept
first_availableLangs(p) ==
    /\ pc[p] = "first_availableLangs"
    /\ IF RulesDirName \notin tmp[p].dirs
       THEN Throw(p, "norules") /\ UNCHANGED availableLanguages
       ELSE /\ availableLanguages' =
                 [availableLanguages EXCEPT ![p] = languagesOf(tmp[p])]
            /\ Goto(p, "first_argv")
    /\ UNCHANGED <<env, dest, tmp, cmdline, argv, snap, cloned, after, warn>>

first_argv(p) ==
    /\ pc[p] = "first_argv"
    /\ IF yargsAccepts(cmdline[p], availableLanguages[p])
       THEN /\ argv' = [argv EXCEPT ![p] = yargsResult(cmdline[p])]
            /\ Goto(p, "first_mkdirProject")
       ELSE /\ Exit(p, 1, "args")
            /\ UNCHANGED argv
    /\ UNCHANGED <<env, dest, tmp, cmdline, availableLanguages, snap, cloned, after, warn>>

\* fs.mkdirSync(projectDir) throws EEXIST when the path exists
first_mkdirProject(p) ==
    /\ pc[p] = "first_mkdirProject"
    /\ IF existsSync(projectDir(p))
       THEN Throw(p, "exists") /\ UNCHANGED dest
       ELSE SetDest(p, NewDir) /\ Goto(p, "first_copyDirs")
    /\ UNCHANGED <<env, tmp, cmdline, argv, availableLanguages, snap, cloned, after, warn>>

\* a list of fs.copySync calls: the first missing source throws ENOENT and
\* what was copied before it stays
copyOrThrow(p, T, list, next) ==
    /\ SetDest(p, copyAll(T, projectDir(p), list, assetsDir(variant)))
    /\ IF allExist(T, list) THEN Goto(p, next) ELSE Throw(p, "copy")

first_copyDirs(p) ==
    /\ pc[p] = "first_copyDirs"
    /\ copyOrThrow(p, tmp[p], coreDirectories, "first_copyLLM")
    /\ UNCHANGED <<env, tmp, cmdline, argv, availableLanguages, snap, cloned, after, warn>>

\* if (argv.llm === "CLAUDE") copy CLAUDE.md else copy GEMINI.md
first_llmFile(llm) ==
    IF llm = "CLAUDE" THEN <<"CLAUDE", MD>> ELSE <<"GEMINI", MD>>

first_copyLLM(p) ==
    /\ pc[p] = "first_copyLLM"
    /\ copyOrThrow(p, tmp[p], <<first_llmFile(argv[p].llm)>>, "first_copyFiles")
    /\ UNCHANGED <<env, tmp, cmdline, argv, availableLanguages, snap, cloned, after, warn>>

first_copyFiles(p) ==
    /\ pc[p] = "first_copyFiles"
    /\ copyOrThrow(p, tmp[p], REQUIRED_FILES, "first_prp")
    /\ UNCHANGED <<env, tmp, cmdline, argv, availableLanguages, snap, cloned, after, warn>>

first_prp(p) ==
    /\ pc[p] = "first_prp"
    /\ SetDest(p, rewritePRP(projectDir(p), argv[p].lang, argv[p].llm))
    /\ Goto(p, "first_rules")
    /\ UNCHANGED <<env, tmp, cmdline, argv, availableLanguages, snap, cloned, after, warn>>

\* fs.writeFileSync(langRulesPath, geminiRulesPath | claudeRulesPath): the
\* file written is the rules document of tempDir, the data is a path string
first_rulesWritten(T, name, language, llm) ==
    IF langRulesName(language) \in DOMAIN T.rules
    THEN [T EXCEPT !.rules = Put(@, langRulesName(language),
             PathString(name, IF llm = "GEMINI" THEN <<"GEMINI", MD>>
                                                ELSE <<"CLAUDE", MD>>))]
    ELSE T

first_rules(p) ==
    /\ pc[p] = "first_rules"
    /\ tmp' = [tmp EXCEPT ![p] =
                 first_rulesWritten(tmp[p], argv[p].name, argv[p].lang, argv[p].llm)]
    /\ Goto(p, "first_mkdirSrc")
    /\ UNCHANGED <<env, dest, cmdline, argv, availableLanguages, snap, cloned, after, warn>>

\* fs.mkdirSync(path.join(projectDir, projectName)), not recursive
first_mkdirSrc(p) ==
    /\ pc[p] = "first_mkdirSrc"
    /\ IF HasEntry(projectDir(p), argv[p].name)
       THEN Throw(p, "mkdir") /\ UNCHANGED dest
       ELSE /\ SetDest(p, [projectDir(p) EXCEPT !.dirs = @ \cup {argv[p].name}])
            /\ Goto(p, "first_gitInit")
    /\ UNCHANGED <<env, tmp, cmdline, argv, availableLanguages, snap, cloned, after, warn>>

first_gitInit(p) ==
    /\ pc[p] = "first_gitInit"
    /\ \/ /\ SetDest(p, [projectDir(p) EXCEPT !.git = @ \cup {argv[p].name}])
          /\ Goto(p, "first_removeTemp")
       \/ /\ Throw(p, "git")
          /\ UNCHANGED dest
    /\ UNCHANGED <<env, tmp, cmdline, argv, availableLanguages, snap, cloned, after, warn>>

first_removeTemp(p) ==
    /\ pc[p] = "first_removeTemp"
    /\ tmp' = [tmp EXCEPT ![p] = NoTree]
    /\ Exit(p, 0, "none")
    /\ UNCHANGED <<env, dest, cmdline, argv, availableLanguages, snap, cloned, after, warn>>

first(p) ==
    \/ first_clone(p)
    \/ first_availableLangs(p)
    \/ first_argv(p)
    \/ first_mkdirProject(p)
    \/ first_copyDirs(p)
    \/ first_copyLLM(p)
    \/ first_copyFiles(p)
    \/ first_prp(p)
    \/ first_rules(p)
    \/ first_mkdirSrc(p)
    \/ first_gitInit(p)
    \/ first_removeTemp(p)

\* ------------------- the local-template script (unnamed/part_000 136-216)
local_availableLangs(p) ==
    /\ pc[p] = "local_availableLangs"
    /\ IF RulesDirName \notin repo.dirs
       THEN Throw(p, "norules") /\ UNCHANGED availableLanguages
       ELSE /\ availableLanguages' =
                 [availableLanguages EXCEPT ![p] = languagesOf(repo)]
            /\ Goto(p, "local_argv")
    /\ UNCHANGED <<env, dest, tmp, cmdline, argv, snap, cloned, after, warn>>

local_argv(p) ==
    /\ pc[p] = "local_argv"
    /\ IF yargsAccepts(cmdline[p], availableLanguages[p])
       THEN /\ argv' = [argv EXCEPT ![p] = yargsResult(cmdline[p])]
            /\ Goto(p, "local_mkdirProject")
       ELSE /\ Exit(p, 1, "args")
            /\ UNCHANGED argv
    /\ UNCHANGED <<env, dest, tmp, cmdline, availableLanguages, snap, cloned, after, warn>>

local_mkdirProject(p) ==
    /\ pc[p] = "local_mkdirProject"
    /\ IF existsSync(projectDir(p))
       THEN Throw(p, "exists") /\ UNCHANGED dest
       ELSE SetDest(p, NewDir) /\ Goto(p, "local_copy")
    /\ UNCHANGED <<env, tmp, cmdline, argv, availableLanguages, snap, cloned, after, warn>>

\* the twelve fs.copySync calls, in the order of the script
local_copyList ==
    << <<".gemini">>, <<"examples">>, RulesDirName, <<"src">>, <<"tests">>,
       <<".gitattributes">>, <<".gitignore">>, <<"CLAUDE", MD>>, <<"GEMINI", MD>>,
       <<"INITIAL_EXAMPLE", MD>>, <<"INITIAL", MD>>, <<"README", MD>> >>

local_copy(p) ==
    /\ pc[p] = "local_copy"
    /\ copyOrThrow(p, repo, local_copyList, "local_prp")
    /\ UNCHANGED <<env, tmp, cmdline, argv, availableLanguages, snap, cloned, after, warn>>

local_prp(p) ==
    /\ pc[p] = "local_prp"
    /\ SetDest(p, rewritePRP(projectDir(p), argv[p].lang, argv[p].llm))
    /\ Goto(p, "local_rules")
    /\ UNCHANGED <<env, tmp, cmdline, argv, availableLanguages, snap, cloned, after, warn>>

\* reads <projectDir>/Rules/<lang>.md and writes it to GEMINI.md and CLAUDE.md
local_rulesWritten(D, language) ==
    IF langRulesName(language) \in DOMAIN D.rules
    THEN [D EXCEPT !.files =
            Put(Put(@, <<"GEMINI", MD>>, D.rules[langRulesName(language)]),
                <<"CLAUDE", MD>>, D.rules[langRulesName(language)])]
    ELSE D

local_rules(p) ==
    /\ pc[p] = "local_rules"
    /\ SetDest(p, local_rulesWritten(projectDir(p), argv[p].lang))
    /\ Goto(p, "local_rename")
    /\ UNCHANGED <<env, tmp, cmdline, argv, availableLanguages, snap, cloned, after, warn>>

\* fs.renameSync(<projectDir>/src, <projectDir>/<projectName>): renaming a
\* directory onto an existing file throws ENOTDIR
local_rename(p) ==
    /\ pc[p] = "local_rename"
    /\ IF argv[p].name \in DOMAIN projectDir(p).files
       THEN Throw(p, "rename") /\ UNCHANGED dest
       ELSE /\ SetDest(p, [projectDir(p) EXCEPT
                   !.dirs = (@ \ { <<"src">> }) \cup {argv[p].name}])
            /\ Goto(p, "local_gitInit")
    /\ UNCHANGED <<env, tmp, cmdline, argv, availableLanguages, snap, cloned, after, warn>>

\* the root of the tree, where the local script runs git init
ROOT == <<".">>

\* execSync("git init", { cwd: projectDir }), then the success message
local_gitInit(p) ==
    /\ pc[p] = "local_gitInit"
    /\ \/ /\ SetDest(p, [projectDir(p) EXCEPT !.git = @ \cup {ROOT}])
          /\ Exit(p, 0, "none")
       \/ /\ Throw(p, "git")
          /\ UNCHANGED dest
    /\ UNCHANGED <<env, tmp, cmdline, argv, availableLanguages, snap, cloned, after, warn>>

local(p) ==
    \/ local_availableLangs(p)
    \/ local_argv(p)
    \/ local_mkdirProject(p)
    \/ local_copy(p)
    \/ local_prp(p)
    \/ local_rules(p)
    \/ local_rename(p)
    \/ local_gitInit(p)

\* ------------------------------------------------------------ specification
Next == \E p \in Procs : Invoke(p) \/ main(p) \/ first(p) \/ local(p)

Spec == Init /\ [][Next]_vars

TypeOK ==
    /\ variant \in Variants
    /\ \A p \in Procs : exitCode[p] \in {0, 1}


\* two invocations, interleaved in any way, on a complete template source
CompleteRepo(v) ==
    MkRepo(v, {}, RuleFileNames, TRUE, { <<"text", PLACEHOLDER>> })

InitTwo ==
    /\ dest = [n \in Names |-> NoTree]
    /\ InitCommon
    /\ repo = CompleteRepo(variant)
    /\ pc = [p \in Procs |-> "invoke"]

SpecTwo == InitTwo /\ [][Next]_vars

\* ------------------------------------------------------------------ claims
Exited(p) == pc[p] = "exited"

Succeeded(p) == Exited(p) /\ exitCode[p] = 0

\* the destination of an invocation, from its command line
target(p) == dest[cmdline[p].name]

targetAtStart(p) == snap[p][cmdline[p].name]

\* C1: once the process has exited, the temporary clone directory it created
\* no longer exists, whether the run succeeded or failed (scripts that clone:
\* main and first).
C1_CleanupGuarantee ==
    \A p \in Procs :
        (variant \in {"main", "first"} /\ Exited(p) /\ cloned[p])
            => ~existsSync(tmp[p])

\* C2: when <cwd>/<name> exists as the scaffolder starts, the run exits
\* non-zero and the file system after the run is what it was before it: the
\* destination tree, the rest of the working directory and the temp location
\* (stated for the runs whose arguments were accepted, which are the runs
\* that get to the destination check).
C2_ExistingDestinationNoWrite ==
    \A p \in Procs :
        (variant = "main" /\ Exited(p) /\ existsSync(targetAtStart(p))
            /\ argv[p] # NoArgs)
            => /\ exitCode[p] # 0
               /\ dest = snap[p]
               /\ ~existsSync(tmp[p])


\* the fixed set of copied assets, by name
FixedDirs == { <<".context">>, <<"examples">> }

FixedDocs == { <<"INITIAL_EXAMPLE", MD>>, <<"INITIAL", MD>>, <<"README", MD>> }

HasFixedAssets(D) ==
    /\ FixedDirs \subseteq D.dirs
    /\ \A f \in FixedDocs : f \in DOMAIN D.files /\ D.files[f] = Doc(f)

\* a request for main(): lang discovered, llm one of the two, destination free
ValidRequest(p) ==
    /\ variant = "main"
    /\ cmdline[p].lang \in Range(availableLanguages[p])
    /\ cmdline[p].llm \in {"GEMINI", "CLAUDE"}
    /\ ~existsSync(targetAtStart(p))

TemplateHasFixedAssets ==
    /\ FixedDirs \subseteq repo.dirs
    /\ FixedDocs \subseteq DOMAIN repo.files

\* the files main() has put in the destination root when it creates <name>
NameIsCopiedFile(p) ==
    cmdline[p].name \in FixedDocs \cup { <<cmdline[p].llm, MD>> }

C4_SecondInvocationFails ==
    \A p \in Procs : \A q \in Procs :
        (p \in after[q] /\ cmdline[q].name = cmdline[p].name
            /\ existsSync(targetAtStart(q)) /\ Exited(q))
            => /\ exitCode[q] # 0
               /\ target(q) = targetAtStart(q)
               /\ (argv[q] # NoArgs => err[q] = "exists")

C4_Witness ==
    \E p \in Procs : \E q \in Procs :
        /\ variant = "main"
        /\ p \in after[q] /\ Succeeded(p)
        /\ cmdline[q].name = cmdline[p].name
        /\ existsSync(targetAtStart(q))
        /\ Exited(q) /\ err[q] = "exists"


\* main() has run its argument parsing
Parsed(p) ==
    /\ variant = "main"
    /\ availableLanguages[p] # <<>>
    /\ pc[p] \notin {"parseArguments"}

\* C5: a lang outside the discovered set is rejected with a non-zero exit and
\* the run changes nothing on disk: no destination directory, no other path.
C5_UnknownLangNoSideEffect ==
    \A p \in Procs :
        (Parsed(p) /\ cmdline[p].lang \notin Range(availableLanguages[p]))
            => /\ Exited(p) /\ exitCode[p] # 0
               /\ dest = snap[p]
               /\ ~existsSync(tmp[p])

\* the spellings of an llm name that differ in case only
CaseVariants(L) ==
    IF L = "GEMINI" THEN {"GEMINI", "gemini"} ELSE {"CLAUDE", "claude"}

\* main() is past configurePRPTemplate
AfterConfigure(p) ==
    /\ variant = "main"
    /\ \/ pc[p] \in {"applyLanguageRules", "initializeProjectStructure",
                     "cleanupTemplateFiles", "cleanupTempDirectory"}
       \/ Succeeded(p)
       \/ Exited(p) /\ err[p] = "mkdir"

\* the selected language has a template variant in the template source
VariantInSource(p) == langTemplateName(argv[p].lang) \in DOMAIN repo.tpl

sourceVariant(p) == repo.tpl[langTemplateName(argv[p].lang)].of

writtenPRP(p) == target(p).tpl[prpTemplateName].of

C7_PlaceholderSubstitution ==
    \A p \in Procs :
        (AfterConfigure(p) /\ VariantInSource(p))
            => /\ prpTemplateName \in DOMAIN target(p).tpl
               /\ argv[p].llm \in {"GEMINI", "CLAUDE"}
               /\ Len(writtenPRP(p)) = Len(sourceVariant(p))
               /\ \A i \in 1..Len(sourceVariant(p)) :
                    /\ sourceVariant(p)[i] = PLACEHOLDER
                         => writtenPRP(p)[i] = argv[p].llm
                    /\ sourceVariant(p)[i] # PLACEHOLDER
                         => writtenPRP(p)[i] = sourceVariant(p)[i]
                    /\ writtenPRP(p)[i] # PLACEHOLDER

C7_Witness ==
    \E p \in Procs :
        /\ Succeeded(p) /\ AfterConfigure(p) /\ VariantInSource(p)
        /\ Len(sourceVariant(p)) >= 2
        /\ \A i \in 1..Len(sourceVariant(p)) : sourceVariant(p)[i] = PLACEHOLDER
        /\ \A i \in 1..Len(writtenPRP(p)) : writtenPRP(p)[i] = "CLAUDE"

\* the generic PRP template of the destination is as the copy step left it
GenericAsCopied(p) ==
    /\ prpTemplateName \in DOMAIN target(p).tpl
          <=> prpTemplateName \in DOMAIN repo.tpl
    /\ prpTemplateName \in DOMAIN target(p).tpl
          => target(p).tpl[prpTemplateName] = repo.tpl[prpTemplateName]

\* C8 as stated: without a template variant for the selected language the
\* generic PRP template stays as copied, no error is raised, and the run exits
\* 0 provided the required files are present.
C8_Original ==
    \A p \in Procs :
        (AfterConfigure(p) /\ ~VariantInSource(p))
            => /\ GenericAsCopied(p)
               /\ (Exited(p) /\ FixedDocs \subseteq DOMAIN repo.files)
                     => exitCode[p] = 0

\* C8 (amended): ... and the run exits 0 provided the required files are
\* present and <name> is not the name of a file copied to the destination
\* root (the creation of the inner directory <name> fails on such a name).
C8_OptionalVariantSkip ==
    \A p \in Procs :
        (AfterConfigure(p) /\ ~VariantInSource(p))
            => /\ GenericAsCopied(p)
               /\ (Exited(p) /\ FixedDocs \subseteq DOMAIN repo.files
                     /\ cmdline[p].name \notin DOMAIN target(p).files)
                     => exitCode[p] = 0

C8_Witness ==
    \E p \in Procs :
        /\ Succeeded(p) /\ AfterConfigure(p) /\ ~VariantInSource(p)
        /\ FixedDocs \subseteq DOMAIN repo.files
        /\ repo.tpl # <<>>
        /\ prpTemplateName \in DOMAIN target(p).tpl
        /\ target(p).tpl[prpTemplateName] = GenericPRP

\* an invocation has just run its language-rules step
AfterRules(p) ==
    pc[p] \in {"initializeProjectStructure", "first_mkdirSrc", "local_rename"}

\* C9: after step 5, when Rules/<lang>.md exists in the template source the
\* destination file <LLM>.md has exactly its content; when it does not exist
\* the branding file of step 3 is unchanged.
C9_LanguageRulesWritten ==
    \A p \in Procs :
        AfterRules(p) =>
            IF langRulesName(argv[p].lang) \in DOMAIN repo.rules
            THEN /\ <<argv[p].llm, MD>> \in DOMAIN target(p).files
                 /\ target(p).files[<<argv[p].llm, MD>>]
                      = Doc(RulesDirName \o langRulesName(argv[p].lang))
            ELSE /\ <<argv[p].llm, MD>> \in DOMAIN target(p).files
                      <=> <<argv[p].llm, MD>> \in DOMAIN repo.files
                 /\ <<argv[p].llm, MD>> \in DOMAIN target(p).files
                      => target(p).files[<<argv[p].llm, MD>>] = Doc(<<argv[p].llm, MD>>)

otherLlm(L) == IF L = "GEMINI" THEN "CLAUDE" ELSE "GEMINI"

\* C10: after a successful run the destination root has exactly one branding
\* document: <llm>.md is there and the other llm's file is not.
C10_ExactlyOneBrandingFile ==
    \A p \in Procs :
        Succeeded(p) =>
            /\ <<argv[p].llm, MD>> \in DOMAIN target(p).files
            /\ <<otherLlm(argv[p].llm), MD>> \notin DOMAIN target(p).files

\* C11: after a successful run the inner directory <dest>/<name> is the root
\* of a repository and the destination root is not: git init ran in the inner
\* directory and never at the root.
C11_RepositoryInInnerDirectory ==
    \A p \in Procs :
        Succeeded(p) =>
            /\ cmdline[p].name \in target(p).git
            /\ ROOT \notin target(p).git

\* C12: in main(), when one of the required documents (INITIAL_EXAMPLE.md,
\* INITIAL.md, README.md) is missing from the cloned template, a run that got
\* as far as copying them ends with an error and a non-zero status; no
\* successful run leaves the destination without one of them.
C12_MissingRequiredFileFails ==
    \A p \in Procs :
        (variant = "main" /\ Exited(p)) =>
            /\ ( /\ "copyRequiredFiles" \in Range(log[p])
                 /\ ~ (Range(REQUIRED_FILES) \subseteq DOMAIN repo.files) )
                  => (exitCode[p] # 0 /\ err[p] # "none")
            /\ exitCode[p] = 0
                  => Range(REQUIRED_FILES) \subseteq DOMAIN target(p).files

\* the git init step of main() has run and failed
gitInitFailed(p) == "git init failed" \in warn[p]

\* C13: in main(), a failed git init is fatal: once it has failed the run ends
\* with an error and a non-zero status, never with status 0.
C13_GitInitFailureFatal ==
    \A p \in Procs :
        (variant = "main" /\ gitInitFailed(p) /\ Exited(p)) =>
            (exitCode[p] # 0 /\ err[p] # "none")

\* the Rules directory of the template source is there and holds no file whose
\* name ends in .md
RulesWithoutMd ==
    /\ RulesDirName \in repo.dirs
    /\ \A f \in DOMAIN repo.rules : f[Len(f)] # MD

\* the statements that discover the languages, and those that parse arguments
discoverySteps == {"getAvailableLanguages", "first_availableLangs"}

parsingSteps == {"parseArguments", "first_argv"}

\* C14: in main() and in the first script, when Rules exists without any .md
\* file, language discovery ends the run: the invocation has exited non-zero
\* with the no-languages error, never parsed arguments, and left the working
\* directory as it found it.
C14_EmptyLanguageSetFailsFast ==
    \A p \in Procs :
        ( /\ variant \in {"main", "first"}
          /\ RulesWithoutMd
          /\ Range(log[p]) \cap discoverySteps # {} ) =>
            /\ Exited(p)
            /\ exitCode[p] # 0
            /\ err[p] = "nolangs"
            /\ Range(log[p]) \cap parsingSteps = {}
            /\ pc[p] \notin parsingSteps
            /\ dest = snap[p]

\* C15: in main(), when git clone fails the run has ended with the clone
\* error and a non-zero status, and nothing else was done: no language was
\* discovered, no argument parsed, and the working directory is as the
\* invocation found it.
C15_CloneFailureStopsRun ==
    \A p \in Procs :
        ( /\ variant = "main"
          /\ "cloneRepository" \in Range(log[p])
          /\ ~ cloned[p] ) =>
            /\ Exited(p)
            /\ exitCode[p] # 0
            /\ err[p] = "clone"
            /\ log[p] = <<"invoke", "cloneRepository">>
            /\ availableLanguages[p] = <<>>
            /\ argv[p] = NoArgs
            /\ dest = snap[p]

C15_Witness ==
    \E p \in Procs :
        /\ variant = "main"
        /\ Exited(p)
        /\ err[p] = "clone"
        /\ ~ cloned[p]

\* the scaffolding steps of an invocation: everything between the template
\* source becoming available and the removal of the temporary clone
Scaffolding(p) ==
    pc[p] \notin {"off", "invoke", "exited", "cloneRepository", "first_clone",
                  "cleanupTempDirectory", "first_removeTemp"}

\* C16: the template source is read-only for the scaffolding steps: while an
\* invocation is between obtaining the template and removing its temporary
\* clone, the tree it reads the template from is exactly the template source,
\* with no file created, overwritten or deleted, under Rules in particular.
C16_TemplateSourceReadOnly ==
    \A p \in Procs :
        Scaffolding(p) => templateDir(p) = repo

\* the steps of the pipeline in the order the specification states them
StepOrder ==
    << "validate", "create", "copy", "branding", "prp", "rules", "inner",
       "git", "remove" >>

rank(step) == CHOOSE i \in 1..Len(StepOrder) : StepOrder[i] = step

\* the steps a statement of main() or of the first script performs; within
\* one statement they happen in the order listed in StepOrder (mkdirSync
\* checks and then creates, initializeProjectStructure makes the inner
\* directory and then runs git init)
stepsOf(label) ==
    CASE label = "validateProjectDirectory" -> {"validate"}
      [] label = "createProjectDirectory" -> {"create"}
      [] label = "first_mkdirProject" -> {"validate", "create"}
      [] label \in {"copyCoreDiretories", "copyRequiredFiles",
                    "first_copyDirs", "first_copyFiles"} -> {"copy"}
      [] label \in {"copyLLMFile", "first_copyLLM"} -> {"branding"}
      [] label \in {"configurePRPTemplate", "first_prp"} -> {"prp"}
      [] label \in {"applyLanguageRules", "first_rules"} -> {"rules"}
      [] label = "initializeProjectStructure" -> {"inner", "git"}
      [] label = "first_mkdirSrc" -> {"inner"}
      [] label = "first_gitInit" -> {"git"}
      [] label \in {"cleanupTempDirectory", "first_removeTemp"} -> {"remove"}
      [] OTHER -> {}

\* the statements run so far never go back in the stated order, and a step is
\* run only after every step stated before it
InStatedOrder(l) ==
    /\ \A i, j \in 1..Len(l) :
          i < j => \A a \in stepsOf(l[i]), b \in stepsOf(l[j]) : rank(a) <= rank(b)
    /\ \A j \in 1..Len(l) : \A b \in stepsOf(l[j]) :
          \A k \in 1..(rank(b) - 1) :
              \E i \in 1..j : StepOrder[k] \in stepsOf(l[i])

\* nothing but the removal of the temporary clone runs after a failed step
NothingAfterFailure(p) ==
    /\ err[p] # "none" => Exited(p)
    /\ gitInitFailed(p) =>
          \A i, j \in 1..Len(log[p]) :
              (i < j /\ log[p][i] = "initializeProjectStructure")
                  => log[p][j] = "cleanupTempDirectory"

\* C17: in main() and in the first script the steps run strictly in the
\* stated order (validation, creation, copies, branding copy, PRP rewrite,
\* language rules, inner directory, git init, temporary-clone removal last),
\* and once a step has failed nothing but the cleanup runs.
C17_StepsInStatedOrder ==
    \A p \in Procs :
        variant \in {"main", "first"} =>
            /\ InStatedOrder(log[p])
            /\ NothingAfterFailure(p)

\* the files of the template's Rules directory whose name ends in .md
mdFiles == { f \in DOMAIN repo.rules : f[Len(f)] = MD }

\* language discovery of main() or of the local script has returned its list
Discovered(p) ==
    /\ variant \in {"main", "local"}
    /\ Range(log[p]) \cap {"getAvailableLanguages", "local_availableLangs"} # {}
    /\ err[p] \notin {"norules", "nolangs"}

\* C18: language discovery returns exactly one identifier per .md file of
\* Rules, each identifier followed by ".md" being the name of its file, and
\* nothing for the other files.
C18_OneIdentifierPerMdFile ==
    \A p \in Procs :
        Discovered(p) =>
            LET langs == availableLanguages[p] IN
            /\ Len(langs) = Cardinality(mdFiles)
            /\ \A f \in mdFiles :
                  Cardinality({ i \in 1..Len(langs) : langs[i] \o <<MD>> = f }) = 1
            /\ \A i \in 1..Len(langs) : langs[i] \o <<MD>> \in mdFiles

\* C19: in main(), every language that argument parsing accepted has its file
\* Rules/<lang>.md in the clone, so a successful run ends with the rules
\* document as <dest>/<LLM>.md and never takes the branch that warns that no
\* language rules were found.
C19_AcceptedLanguageHasRules ==
    \A p \in Procs :
        (variant = "main" /\ argv[p] # NoArgs) =>
            /\ langRulesName(argv[p].lang) \in DOMAIN repo.rules
            /\ "no language rules" \notin warn[p]
            /\ Succeeded(p) =>
                  /\ <<argv[p].llm, MD>> \in DOMAIN target(p).files
                  /\ target(p).files[<<argv[p].llm, MD>>]
                       = Doc(RulesDirName \o langRulesName(argv[p].lang))

\* the entries of the template's templates directory other than
\* prp_template.md
variantEntries == (DOMAIN repo.tpl) \ {prpTemplateName}

\* C20: in main(), after a successful run the templates directory of the
\* destination holds nothing but prp_template.md; and the removal comes only
\* after the PRP rewrite: until configurePRPTemplate has run every entry
\* copied from the template is still there, and cleanupTemplateFiles runs
\* only after it.
C20_OnlyGenericTemplateRemains ==
    \A p \in Procs :
        variant = "main" =>
            /\ Succeeded(p) => DOMAIN target(p).tpl \subseteq {prpTemplateName}
            /\ pc[p] \in {"copyRequiredFiles", "copyLLMFile", "configurePRPTemplate"}
                  => target(p).tpl = tmp[p].tpl
            /\ \A j \in 1..Len(log[p]) :
                  log[p][j] = "cleanupTemplateFiles"
                      => \E i \in 1..(j - 1) : log[p][i] = "configurePRPTemplate"

\* a successful run of main() whose template had per-language variants and
\* whose destination has the templates directory
C20_Witness ==
    \E p \in Procs :
        /\ variant = "main"
        /\ Succeeded(p)
        /\ variantEntries # {}
        /\ assetsDir(variant) \in target(p).dirs
        /\ prpTemplateName \in DOMAIN target(p).tpl

\* the statements of main() that write into the destination directory
destinationWriters ==
    { "createProjectDirectory", "copyCoreDiretories", "copyRequiredFiles",
      "copyLLMFile", "configurePRPTemplate", "applyLanguageRules",
      "initializeProjectStructure", "cleanupTemplateFiles" }

\* the invocation has run a statement that writes into its destination
wroteDestination(p) == Range(log[p]) \cap destinationWriters # {}

\* two invocations of the same request that overlap in time: both have
\* started and neither had ended when the other started
Concurrent(p, q) ==
    /\ p # q
    /\ pc[p] \notin {"off", "invoke"} /\ pc[q] \notin {"off", "invoke"}
    /\ p \notin after[q] /\ q \notin after[p]
    /\ cmdline[p].name = cmdline[q].name

\* C21: of two concurrent invocations of main() with the same name, at most
\* one creates and populates the destination: the two never both write into
\* it, and when both have ended after passing argument parsing with one of
\* them successful, the other has failed with the destination-exists error.
C21_AtMostOneCreatesDestination ==
    \A p \in Procs : \A q \in Procs :
        (variant = "main" /\ Concurrent(p, q)) =>
            /\ ~ (wroteDestination(p) /\ wroteDestination(q))
            /\ (Succeeded(p) /\ Exited(q) /\ argv[q] # NoArgs)
                  => (exitCode[q] # 0 /\ err[q] = "exists")

=============================================================================
